---- MODULE Spec2Model ----
(***************************************************************************)
(* sysbox-fs: the fuse-server service (src/fuse/service.go, lines 19-133)  *)
(* and the nf_conntrack_max handler (src/fuse/service.go, lines 159-421).  *)
(*                                                                         *)
(* Every goroutine that may call into the service or the handler is a     *)
(* thread of the model.  A call is a sequence of steps; a step is the code *)
(* between two points at which another goroutine can observe or change     *)
(* shared state (a critical section of the RWMutex, one file-system call,  *)
(* one fuse-server method, one access to the container's data map).        *)
(***************************************************************************)
EXTENDS Integers, Sequences, FiniteSets, TLC

\* ============================================================================
\* fuse-server service
\* ============================================================================

\* Number of fuseServer objects the model lets CreateFuseServer allocate.
MaxSrv == 2

\* Goroutines calling into the service / the handler.
Threads == {"t1", "t2"}

\* Container ids handed to CreateFuseServer / DestroyFuseServer.
CntrIds == {"c1", "c2"}

\* ------------------------------------------------- fuse-server service state

VARIABLES
    servers,      \* fss.servers: container id -> fuseServer object (0: no entry)
    srv,          \* the fuseServer objects: object -> [id, state, dcalled]
                  \* (dcalled: Destroy has been invoked on the object)
    nextSrv,      \* the next object CreateFuseServer allocates
    mountpoints,  \* host file-system: does fss.mountPoint/<id> exist
    fcall,        \* per goroutine: the service call it executes or executed last
    life          \* per id: "created" after a successful create, "destroyed"
                  \* after a DestroyFuseServer that started later has returned

\* ---------------------------------------- nf_conntrack_max handler state

VARIABLES
    hostFile,  \* content of the host's /proc/sys/net/netfilter/nf_conntrack_max
    cache,     \* per container: cntr.Data(path, name) as [ok, data]
    ncall,     \* per goroutine: the handler call it executes or executed last
    nfCalls,   \* handler calls issued so far
    lastW,     \* per container: newMax of its last accepted Write ([ok, data])
    lastR,     \* per container: what its last Read returned since its last
               \* accepted Write ([ok, data])
    wmax       \* the largest of the initial host value and the accepted writes

\* ------------------------------- neigh, meminfo and cpuinfo handlers' state

VARIABLES
    hostNodes, \* content of the host files behind the other handlers' nodes
    neighData, \* per container: the cached value of the neigh gc_thresh node
    dcall      \* per goroutine: the neigh Lookup or ReadDirAll call it executes
               \* or executed last

fssVars == <<servers, srv, nextSrv, mountpoints, fcall, life>>

nfVars == <<hostFile, cache, ncall, nfCalls, lastW, lastR, wmax>>

ohVars == <<hostNodes, neighData, dcall>>

vars == <<servers, srv, nextSrv, mountpoints, fcall, life,
          hostFile, cache, ncall, nfCalls, lastW, lastR, wmax,
          hostNodes, neighData, dcall>>

SrvIds == 1..MaxSrv

\* A goroutine's call record.  op, id, ret: the call and its result.  pc, srv: the
\* position in the call and its local srv.  The other fields are history:
\* made (MkdirAll created the directory), fresh (no entry for id when the call
\* began), peers (goroutines whose CreateFuseServer call for the same id
\* overlapped this one), lf (life[id] when the call began).  For the range
\* loop of DestroyFuseService: visited (keys the loop has produced) and late
\* (keys inserted into the map after the loop produced its first key).
NoCall == [op |-> "none", id |-> "-", pc |-> "done", srv |-> 0, ret |-> "-",
           made |-> FALSE, fresh |-> FALSE, peers |-> {}, lf |-> "-",
           visited |-> {}, late |-> {}]

\* NewFuseServerService: an empty servers map; nothing mounted yet.
FssInit ==
    /\ servers = [c \in CntrIds |-> 0]
    /\ srv = [i \in SrvIds |-> [id |-> "-", state |-> "Unborn", dcalled |-> FALSE]]
    /\ nextSrv = 1
    /\ mountpoints = [c \in CntrIds |-> FALSE]
    /\ fcall = [t \in Threads |-> NoCall]
    /\ life = [c \in CntrIds |-> "fresh"]

InFlight(t) == fcall[t].pc # "done"

\* The call of t returns r: its locals die, the result stays visible.
FssReturn(t, r) ==
    fcall' = [fcall EXCEPT ![t].pc = "done", ![t].srv = 0, ![t].ret = r,
                           ![t].made = FALSE, ![t].lf = "-",
                           ![t].visited = {}, ![t].late = {}]

FssGoto(t, pc) == fcall' = [fcall EXCEPT ![t].pc = pc]

\* ------------------------------------------------------- fuseServer lifecycle

\* fuseServer.Init: Created -> Initialized, or an error that leaves it Created.
SrvInit(ok) == IF ok THEN "Initialized" ELSE "Created"

\* fuseServer.Destroy: -> Destroyed, or an error that leaves the server as it was.
SrvDestroy(state, ok) == IF ok THEN "Destroyed" ELSE state

Live(i) == srv[i].state \in {"Initialized", "Running"}

\* ---------------------------------------------------------- CreateFuseServer

\* Create calls that have not allocated their fuseServer object yet.
PendingAlloc ==
    Cardinality({u \in Threads : fcall[u].pc \in {"check", "mkdir", "init"}})

CreatePeers(c) ==
    {u \in Threads : InFlight(u) /\ fcall[u].op = "create" /\ fcall[u].id = c}

\* A goroutine calls CreateFuseServer(c).
CreateCall(t, c) ==
    /\ ~InFlight(t)
    /\ nextSrv + PendingAlloc <= MaxSrv
    /\ fcall' = [u \in Threads |->
          IF u = t
             THEN [NoCall EXCEPT !.op = "create", !.id = c, !.pc = "check",
                                 !.fresh = (servers[c] = 0),
                                 !.peers = CreatePeers(c)]
             ELSE IF u \in CreatePeers(c)
                     THEN [fcall[u] EXCEPT !.peers = @ \cup {t}]
                     ELSE fcall[u]]
    /\ UNCHANGED <<servers, srv, nextSrv, mountpoints, life, nfVars, ohVars>>

CreateCheckSkipped(t) ==
    /\ FssGoto(t, "mkdir")
    /\ UNCHANGED <<servers, srv, nextSrv, mountpoints, life, nfVars, ohVars>>

\* RLock; if _, ok := fss.servers[cntrId]; ok { RUnlock; return error }; RUnlock
CreateCheck(t) ==
    /\ IF servers[fcall[t].id] # 0
          THEN FssReturn(t, "AlreadyPresent")
          ELSE FssGoto(t, "mkdir")
    /\ UNCHANGED <<servers, srv, nextSrv, mountpoints, life, nfVars, ohVars>>

\* os.MkdirAll(cntrMountpoint, 0600): succeeds when the directory exists already.
CreateMkdir(t) ==
    \/ /\ FssReturn(t, "InvalidMountpoint")
       /\ UNCHANGED <<servers, srv, nextSrv, mountpoints, life, nfVars, ohVars>>
    \/ /\ mountpoints' = [mountpoints EXCEPT ![fcall[t].id] = TRUE]
       /\ fcall' = [fcall EXCEPT ![t].pc = "init",
                                 ![t].made = ~mountpoints[fcall[t].id]]
       /\ UNCHANGED <<servers, srv, nextSrv, life, nfVars, ohVars>>

\* srv := &fuseServer{...}; if err := srv.Init(); err != nil { return error }
CreateInit(t) ==
    /\ nextSrv' = nextSrv + 1
    /\ UNCHANGED <<servers, mountpoints, life, nfVars, ohVars>>
    /\ \/ /\ srv' = [srv EXCEPT ![nextSrv] = [id |-> fcall[t].id, state |-> SrvInit(FALSE),
                                           dcalled |-> FALSE]]
          /\ FssReturn(t, "InitFailure")
       \/ /\ srv' = [srv EXCEPT ![nextSrv] = [id |-> fcall[t].id, state |-> SrvInit(TRUE),
                                           dcalled |-> FALSE]]
          /\ fcall' = [fcall EXCEPT ![t].pc = "run", ![t].srv = nextSrv]

\* go srv.Run()
CreateRun(t) ==
    /\ srv' = [srv EXCEPT ![fcall[t].srv].state = "Running"]
    /\ FssGoto(t, "store")
    /\ UNCHANGED <<servers, nextSrv, mountpoints, life, nfVars, ohVars>>

\* Lock; fss.servers[cntrId] = srv; Unlock; return nil
CreateStore(t) ==
    /\ servers' = [servers EXCEPT ![fcall[t].id] = fcall[t].srv]
    /\ life' = [life EXCEPT ![fcall[t].id] = "created"]
    /\ fcall' = [u \in Threads |->
          IF u = t
             THEN [fcall[t] EXCEPT !.pc = "done", !.srv = 0, !.ret = "ok",
                                   !.made = FALSE, !.lf = "-"]
             ELSE IF fcall[u].op = "destroyAll" /\ fcall[u].visited # {}
                     THEN [fcall[u] EXCEPT !.late = @ \cup {fcall[t].id}]
                     ELSE fcall[u]]
    /\ UNCHANGED <<srv, nextSrv, mountpoints, nfVars, ohVars>>

CreateFuseServer(t) ==
    \/ /\ fcall[t].pc = "check" /\ CreateCheck(t)
    \/ /\ fcall[t].pc = "mkdir" /\ CreateMkdir(t)
    \/ /\ fcall[t].pc = "init"  /\ CreateInit(t)
    \/ /\ fcall[t].pc = "run"   /\ CreateRun(t)
    \/ /\ fcall[t].pc = "store" /\ CreateStore(t)

\* --------------------------------------------------------- DestroyFuseServer

\* A goroutine calls DestroyFuseServer(c).
DestroyCall(t, c) ==
    /\ ~InFlight(t)
    /\ fcall' = [fcall EXCEPT ![t] = [NoCall EXCEPT !.op = "destroy", !.id = c,
                                                  !.pc = "lookup",
                                                  !.lf = life[c]]]
    /\ UNCHANGED <<servers, srv, nextSrv, mountpoints, life, nfVars, ohVars>>

\* A DestroyFuseServer call returns nil: to its caller, or into the range loop
\* of DestroyFuseService that called it.
DestroyReturn(t) ==
    /\ IF fcall[t].op = "destroyAll"
          THEN fcall' = [fcall EXCEPT ![t].pc = "range", ![t].srv = 0, ![t].lf = "-"]
          ELSE FssReturn(t, "ok")
    /\ life' = [life EXCEPT ![fcall[t].id] =
                   IF fcall[t].lf = "created" /\ @ = "created" THEN "destroyed" ELSE @]

\* RLock; srv, ok := fss.servers[cntrId]; if !ok { RUnlock; return nil }; RUnlock
DestroyLookup(t) ==
    /\ IF servers[fcall[t].id] = 0
          THEN DestroyReturn(t)
          ELSE /\ fcall' = [fcall EXCEPT ![t].pc = "destroy",
                                         ![t].srv = servers[fcall[t].id]]
               /\ UNCHANGED life
    /\ UNCHANGED <<servers, srv, nextSrv, mountpoints, nfVars, ohVars>>

\* if err := srv.Destroy(); err != nil { log; return nil }
DestroySrv(t) ==
    /\ UNCHANGED <<servers, nextSrv, mountpoints, nfVars, ohVars>>
    /\ \/ /\ srv' = [srv EXCEPT ![fcall[t].srv].state = SrvDestroy(@, FALSE),
                                ![fcall[t].srv].dcalled = TRUE]
          /\ DestroyReturn(t)
       \/ /\ srv' = [srv EXCEPT ![fcall[t].srv].state = SrvDestroy(@, TRUE),
                                ![fcall[t].srv].dcalled = TRUE]
          /\ FssGoto(t, "remove")
          /\ UNCHANGED life

\* if err := os.Remove(cntrMountpoint); err != nil { log; return nil }
\* os.Remove fails when the directory is missing, and may fail when it is there.
DestroyRemove(t) ==
    /\ UNCHANGED <<servers, srv, nextSrv, nfVars, ohVars>>
    /\ \/ /\ DestroyReturn(t)
          /\ UNCHANGED mountpoints
       \/ /\ mountpoints[fcall[t].id]
          /\ mountpoints' = [mountpoints EXCEPT ![fcall[t].id] = FALSE]
          /\ FssGoto(t, "delete")
          /\ UNCHANGED life

\* Lock; delete(fss.servers, cntrId); Unlock; return nil
DestroyDelete(t) ==
    /\ servers' = [servers EXCEPT ![fcall[t].id] = 0]
    /\ DestroyReturn(t)
    /\ UNCHANGED <<srv, nextSrv, mountpoints, nfVars, ohVars>>

DestroyFuseServer(t) ==
    \/ /\ fcall[t].pc = "lookup"  /\ DestroyLookup(t)
    \/ /\ fcall[t].pc = "destroy" /\ DestroySrv(t)
    \/ /\ fcall[t].pc = "remove"  /\ DestroyRemove(t)
    \/ /\ fcall[t].pc = "delete"  /\ DestroyDelete(t)

\* -------------------------------------------------------- DestroyFuseService

\* A goroutine calls DestroyFuseService().
DestroyServiceCall(t) ==
    /\ ~InFlight(t)
    /\ fcall' = [fcall EXCEPT ![t] = [NoCall EXCEPT !.op = "destroyAll", !.pc = "range"]]
    /\ UNCHANGED <<servers, srv, nextSrv, mountpoints, life, nfVars, ohVars>>

\* Keys the range loop has yet to produce.
RangeLeft(t) == {c \in CntrIds : servers[c] # 0 /\ c \notin fcall[t].visited}

\* The runtime may detect a map write that runs while the loop reads the map,
\* which the loop does holding no lock, and abort the process.
RangeRaced(t) == \E u \in Threads \ {t} : fcall[u].pc \in {"store", "delete"}

\* The process has been aborted.
Crashed == \E t \in Threads : fcall[t].ret = "fatal"

\* for k, _ := range fss.servers { fss.DestroyFuseServer(k) }: one iteration
\* of the loop, which reads the map with no lock held.  A key deleted before
\* the loop reaches it is not produced; a key inserted while the loop runs is
\* produced or skipped.
DestroyFuseService(t) ==
    /\ fcall[t].pc = "range"
    /\ UNCHANGED <<servers, srv, nextSrv, mountpoints, life, nfVars, ohVars>>
    /\ \/ /\ RangeLeft(t) \subseteq fcall[t].late
          /\ FssReturn(t, "ok")
       \/ \E k \in RangeLeft(t) :
             fcall' = [fcall EXCEPT ![t].id = k, ![t].pc = "lookup",
                                    ![t].visited = @ \cup {k},
                                    ![t].lf = life[k]]
       \/ /\ RangeRaced(t)
          /\ FssReturn(t, "fatal")

\* ============================================================================
\* /proc/sys/net/netfilter/nf_conntrack_max handler
\* ============================================================================

\* Number of handler calls (Read or Write) the model lets the goroutines issue.
MaxCalls == 3

\* Caller pids: p1 and p2 run inside the registered containers c1 and c2, p9
\* belongs to no registered container.
Pids == {"p1", "p2", "p9"}

\* css.ContainerLookupByPid(pid): the container of the pid, or nil.
ContainerLookupByPid(pid) ==
    IF pid = "p1" THEN "c1" ELSE IF pid = "p2" THEN "c2" ELSE "nil"

Containers == {"c1", "c2"}

\* ------------------------------------------------------------------- strings

\* A Go string / []byte is a sequence of one-character strings.
Digits == <<"0", "1", "2", "3", "4", "5", "6", "7", "8", "9">>

IsDigit(ch) == \E d \in 1..10 : Digits[d] = ch

DigitVal(ch) == (CHOOSE d \in 1..10 : Digits[d] = ch) - 1

IsSpace(ch) == ch \in {" ", "\n", "\t", "\r"}

RECURSIVE TrimLeft(_)
TrimLeft(s) == IF s # <<>> /\ IsSpace(Head(s)) THEN TrimLeft(Tail(s)) ELSE s

RECURSIVE TrimRight(_)
TrimRight(s) ==
    IF s # <<>> /\ IsSpace(s[Len(s)]) THEN TrimRight(SubSeq(s, 1, Len(s) - 1)) ELSE s

\* strings.TrimSpace
TrimSpace(s) == TrimRight(TrimLeft(s))

RECURSIVE DigitsVal(_)
DigitsVal(s) ==
    IF s = <<>> THEN 0 ELSE 10 * DigitsVal(SubSeq(s, 1, Len(s) - 1)) + DigitVal(s[Len(s)])

\* strconv.Atoi: an optional sign, then one or more decimal digits; anything
\* else is a syntax error.  (The strings of the model are far from the int range.)
Atoi(s) ==
    LET body == IF s # <<>> /\ Head(s) \in {"+", "-"} THEN Tail(s) ELSE s
        ok   == body # <<>> /\ \A i \in 1..Len(body) : IsDigit(body[i])
    IN  IF ~ok THEN [err |-> TRUE, val |-> 0]
        ELSE [err |-> FALSE,
              val |-> IF Head(s) = "-" THEN 0 - DigitsVal(body) ELSE DigitsVal(body)]

\* strconv.Itoa
RECURSIVE Itoa(_)
Itoa(n) ==
    IF n < 0 THEN <<"-">> \o Itoa(0 - n)
    ELSE IF n < 10 THEN <<Digits[n + 1]>>
    ELSE Itoa(n \div 10) \o <<Digits[(n % 10) + 1]>>

\* ------------------------------------------------------------- handler state

\* n.ReadLine() on a freshly opened node: the content up to the first newline.
RECURSIVE ReadLine(_)
ReadLine(f) ==
    IF f = <<>> \/ Head(f) = "\n" THEN <<>> ELSE <<Head(f)>> \o ReadLine(Tail(f))

\* n.Write(msg) after n.SeekReset(): the sysctl takes msg as its new value.
HostWrite(msg) == msg \o <<"\n">>

HostInt == Atoi(ReadLine(hostFile))

NoData == [ok |-> FALSE, data |-> <<>>]

\* Payloads the callers write.
Bufs == { <<"3">>, <<"7", "\n">>, <<"1", "2">>, <<"+", "5">>, <<"x">> }

\* Contents the host file starts with.
HostFiles == { <<"5", "\n">>, <<"x", "\n">> }

\* A goroutine's handler call.  op, pid, buf, off: the call.  pc and the
\* locals cntr, newMax, newMaxInt, curHostMaxInt, data, miss (cntr.Data found
\* nothing), hostRead (the call has read the host file).  n, err, out: what the call returned (out: the bytes copied into
\* buf by Read).  History: solo (no other call was in flight during this one),
\* alone (no other call of the same container was), h0 (HostInt when the call
\* began), prev (lastW of the container when the call began).
NoNfCall == [op |-> "none", pid |-> "-", buf |-> <<>>, off |-> 0, pc |-> "done",
             cntr |-> "nil", newMax |-> <<>>, newMaxInt |-> 0, curHostMaxInt |-> 0,
             data |-> <<>>, miss |-> FALSE, hostRead |-> FALSE,
             n |-> 0, err |-> "-", out |-> <<>>,
             solo |-> FALSE, alone |-> FALSE, h0 |-> [err |-> TRUE, val |-> 0],
             prev |-> NoData]

NfInit ==
    /\ hostFile \in HostFiles
    /\ cache = [c \in Containers |-> NoData]
    /\ ncall = [t \in Threads |-> NoNfCall]
    /\ nfCalls = 0
    /\ lastW = [c \in Containers |-> NoData]
    /\ lastR = [c \in Containers |-> NoData]
    /\ wmax = HostInt.val

NfInFlight(t) == ncall[t].pc # "done"

Max(a, b) == IF a >= b THEN a ELSE b

\* The call of t returns (n, err), and for a Read the bytes out: its locals die.
NfReturn(t, n, err, out) ==
    ncall' = [ncall EXCEPT ![t].pc = "done", ![t].n = n, ![t].err = err,
                           ![t].out = out,
                           ![t].newMax = <<>>, ![t].newMaxInt = 0,
                           ![t].curHostMaxInt = 0, ![t].data = <<>>,
                           ![t].miss = FALSE, ![t].hostRead = FALSE,
                           ![t].buf = <<>>, ![t].off = 0,
                           ![t].cntr = "nil", ![t].solo = FALSE, ![t].alone = FALSE,
                           ![t].h0 = NoNfCall.h0, ![t].prev = NoData]

\* A goroutine enters a handler call: the calls in flight stop being on their own.
NfEnter(t, op, pid, buf, off, pc) ==
    /\ ~NfInFlight(t)
    /\ nfCalls < MaxCalls
    /\ nfCalls' = nfCalls + 1
    /\ ncall' = [u \in Threads |->
          IF u = t
             THEN [NoNfCall EXCEPT !.op = op, !.pid = pid, !.buf = buf, !.off = off,
                      !.pc = pc, !.cntr = ContainerLookupByPid(pid),
                      !.solo = \A w \in Threads \ {t} : ~NfInFlight(w),
                      !.alone = \A w \in Threads \ {t} :
                                   NfInFlight(w) => ncall[w].cntr # ContainerLookupByPid(pid),
                      !.h0 = HostInt,
                      !.prev = IF ContainerLookupByPid(pid) \in Containers
                                  THEN lastW[ContainerLookupByPid(pid)] ELSE NoData]
             ELSE IF NfInFlight(u)
                     THEN [ncall[u] EXCEPT !.solo = FALSE,
                              !.alone = @ /\ ncall[u].cntr # ContainerLookupByPid(pid)]
                     ELSE ncall[u]]

\* --------------------------------------------------------------------- Write

\* A goroutine calls Write(n, pid, buf).
WriteCall(t, pid, buf) ==
    /\ NfEnter(t, "write", pid, buf, 0, "w_data")
    /\ UNCHANGED <<hostFile, cache, lastW, lastR, wmax, fssVars, ohVars>>

\* newMax := TrimSpace(buf); newMaxInt, err := Atoi(newMax); the container
\* lookup; curMax, ok := cntr.Data(path, name), and the branch it selects.
WriteData(t) ==
    LET newMax    == TrimSpace(ncall[t].buf)
        newMaxInt == Atoi(newMax)
        cur       == IF ncall[t].cntr = "nil" THEN NoData ELSE cache[ncall[t].cntr]
        next(pc)  == ncall' = [ncall EXCEPT ![t].pc = pc, ![t].newMax = newMax,
                                            ![t].newMaxInt = newMaxInt.val,
                                            ![t].miss = ~cur.ok]
    IN
    /\ IF newMaxInt.err THEN NfReturn(t, 0, "syntax", <<>>)
       ELSE IF ncall[t].cntr = "nil" THEN NfReturn(t, 0, "ContainerNotFound", <<>>)
       ELSE IF ~cur.ok THEN next("p_read")
       ELSE IF Atoi(cur.data).err THEN NfReturn(t, 0, "syntax", <<>>)
       ELSE IF newMaxInt.val <= Atoi(cur.data).val THEN next("w_set")
       ELSE next("p_read")
    /\ UNCHANGED <<hostFile, cache, nfCalls, lastW, lastR, wmax, fssVars, ohVars>>

\* What Write returns when PushFile failed with err.
PushError(t, err) ==
    NfReturn(t, 0, IF ncall[t].miss THEN err ELSE "EOF", <<>>)

\* PushFile without the comparison against the host value: every value is
\* pushed.
PushReadLineNoCompare(t) ==
    /\ UNCHANGED <<hostFile, cache, nfCalls, lastW, lastR, wmax, fssVars, ohVars>>
    /\ \/ PushError(t, "io")
       \/ IF HostInt.err
             THEN PushError(t, "syntax")
             ELSE ncall' = [ncall EXCEPT
                     ![t].curHostMaxInt = HostInt.val,
                     ![t].hostRead = TRUE,
                     ![t].pc = "p_seek"]

\* PushFile: curHostMax, err := n.ReadLine(); curHostMaxInt, err := Atoi(curHostMax);
\* if newMaxInt <= curHostMaxInt { return nil }
PushReadLine(t) ==
    /\ UNCHANGED <<hostFile, cache, nfCalls, lastW, lastR, wmax, fssVars, ohVars>>
    /\ \/ PushError(t, "io")
       \/ IF HostInt.err
             THEN PushError(t, "syntax")
             ELSE ncall' = [ncall EXCEPT
                     ![t].curHostMaxInt = HostInt.val,
                     ![t].hostRead = TRUE,
                     ![t].pc = IF ncall[t].newMaxInt <= HostInt.val
                                  THEN "w_set" ELSE "p_seek"]

\* PushFile: _, err = n.SeekReset()
PushSeekReset(t) ==
    /\ UNCHANGED <<hostFile, cache, nfCalls, lastW, lastR, wmax, fssVars, ohVars>>
    /\ \/ PushError(t, "io")
       \/ ncall' = [ncall EXCEPT ![t].pc = "p_write"]

PushWriteCachesFirst(t) ==
    /\ UNCHANGED <<nfCalls, lastW, lastR, wmax, fssVars, ohVars>>
    /\ \/ /\ PushError(t, "io")
          /\ cache' = [cache EXCEPT ![ncall[t].cntr] = [ok |-> TRUE, data |-> ncall[t].newMax]]
          /\ UNCHANGED hostFile
       \/ /\ hostFile' = HostWrite(Itoa(ncall[t].newMaxInt))
          /\ ncall' = [ncall EXCEPT ![t].pc = "w_set"]
          /\ UNCHANGED cache

\* PushFile: msg := []byte(Itoa(newMaxInt)); _, err = n.Write(msg)
PushWrite(t) ==
    /\ UNCHANGED <<cache, nfCalls, lastW, lastR, wmax, fssVars, ohVars>>
    /\ \/ /\ PushError(t, "io")
          /\ UNCHANGED hostFile
       \/ /\ hostFile' = HostWrite(Itoa(ncall[t].newMaxInt))
          /\ ncall' = [ncall EXCEPT ![t].pc = "w_set"]

WriteSetDataAll(t) ==
    /\ cache' = [c \in Containers |-> [ok |-> TRUE, data |-> ncall[t].newMax]]
    /\ lastW' = [lastW EXCEPT ![ncall[t].cntr] = [ok |-> TRUE, data |-> ncall[t].newMax]]
    /\ lastR' = [lastR EXCEPT ![ncall[t].cntr] = NoData]
    /\ wmax' = Max(wmax, ncall[t].newMaxInt)
    /\ NfReturn(t, Len(ncall[t].buf), "nil", <<>>)
    /\ UNCHANGED <<hostFile, nfCalls, fssVars, ohVars>>

\* cntr.SetData(path, name, newMax); return len(buf), nil
WriteSetData(t) ==
    /\ cache' = [cache EXCEPT ![ncall[t].cntr] = [ok |-> TRUE, data |-> ncall[t].newMax]]
    /\ lastW' = [lastW EXCEPT ![ncall[t].cntr] = [ok |-> TRUE, data |-> ncall[t].newMax]]
    /\ lastR' = [lastR EXCEPT ![ncall[t].cntr] = NoData]
    /\ wmax' = Max(wmax, ncall[t].newMaxInt)
    /\ NfReturn(t, Len(ncall[t].buf), "nil", <<>>)
    /\ UNCHANGED <<hostFile, nfCalls, fssVars, ohVars>>

Write(t) ==
    /\ ncall[t].op = "write"
    /\ \/ /\ ncall[t].pc = "w_data"  /\ WriteData(t)
       \/ /\ ncall[t].pc = "p_read"  /\ PushReadLine(t)
       \/ /\ ncall[t].pc = "p_seek"  /\ PushSeekReset(t)
       \/ /\ ncall[t].pc = "p_write" /\ PushWrite(t)
       \/ /\ ncall[t].pc = "w_set"   /\ WriteSetData(t)

\* ---------------------------------------------------------------------- Read

\* Offsets the callers read at.
Offsets == {0, 1}

\* A goroutine calls Read(n, pid, buf, off), buf large enough for the value.
ReadCall(t, pid, off) ==
    /\ NfEnter(t, "read", pid, <<>>, off, "r_data")
    /\ UNCHANGED <<hostFile, cache, lastW, lastR, wmax, fssVars, ohVars>>

\* data += "\n"; return copyResultBuffer(buf, []byte(data))
ReadResult(t, data) ==
    NfReturn(t, Len(data) + 1, "nil", data \o <<"\n">>)

ReadDataLookupFirst(t) ==
    /\ IF ncall[t].cntr = "nil" THEN NfReturn(t, 0, "ContainerNotFound", <<>>)
       ELSE IF ncall[t].off > 0 THEN NfReturn(t, 0, "EOF", <<>>)
       ELSE IF cache[ncall[t].cntr].ok THEN ReadResult(t, cache[ncall[t].cntr].data)
       ELSE ncall' = [ncall EXCEPT ![t].pc = "f_read"]
    /\ lastR' = IF ncall[t].off = 0 /\ ncall[t].cntr # "nil" /\ cache[ncall[t].cntr].ok
                   THEN [lastR EXCEPT ![ncall[t].cntr] =
                           [ok |-> TRUE, data |-> cache[ncall[t].cntr].data \o <<"\n">>]]
                   ELSE lastR
    /\ UNCHANGED <<hostFile, cache, nfCalls, lastW, wmax, fssVars, ohVars>>

\* if off > 0 { return 0, io.EOF }; the container lookup;
\* data, ok := cntr.Data(path, name); a hit is returned at once.
ReadData(t) ==
    /\ IF ncall[t].off > 0 THEN NfReturn(t, 0, "EOF", <<>>)
       ELSE IF ncall[t].cntr = "nil" THEN NfReturn(t, 0, "ContainerNotFound", <<>>)
       ELSE IF cache[ncall[t].cntr].ok THEN ReadResult(t, cache[ncall[t].cntr].data)
       ELSE ncall' = [ncall EXCEPT ![t].pc = "f_read"]
    /\ lastR' = IF ncall[t].off = 0 /\ ncall[t].cntr # "nil" /\ cache[ncall[t].cntr].ok
                   THEN [lastR EXCEPT ![ncall[t].cntr] =
                           [ok |-> TRUE, data |-> cache[ncall[t].cntr].data \o <<"\n">>]]
                   ELSE lastR
    /\ UNCHANGED <<hostFile, cache, nfCalls, lastW, wmax, fssVars, ohVars>>

\* FetchFile: curHostMax, err := n.ReadLine(); _, err = Atoi(curHostMax)
FetchFile(t) ==
    /\ UNCHANGED <<hostFile, cache, nfCalls, lastW, lastR, wmax, fssVars, ohVars>>
    /\ \/ NfReturn(t, 0, "io", <<>>)
       \/ IF HostInt.err
             THEN NfReturn(t, 0, "syntax", <<>>)
             ELSE ncall' = [ncall EXCEPT ![t].pc = "r_set", ![t].hostRead = TRUE,
                                         ![t].data = ReadLine(hostFile)]

\* cntr.SetData(path, name, data), then the data is returned.
ReadSetData(t) ==
    /\ cache' = [cache EXCEPT ![ncall[t].cntr] = [ok |-> TRUE, data |-> ncall[t].data]]
    /\ ReadResult(t, ncall[t].data)
    /\ lastR' = [lastR EXCEPT ![ncall[t].cntr] =
                   [ok |-> TRUE, data |-> ncall[t].data \o <<"\n">>]]
    /\ UNCHANGED <<hostFile, nfCalls, lastW, wmax, fssVars, ohVars>>

Read(t) ==
    /\ ncall[t].op = "read"
    /\ \/ /\ ncall[t].pc = "r_data"  /\ ReadData(t)
       \/ /\ ncall[t].pc = "f_read"  /\ FetchFile(t)
       \/ /\ ncall[t].pc = "r_set"   /\ ReadSetData(t)

\* ============================================================================
\* neigh, meminfo and cpuinfo handlers; Getattr of the four handlers
\* ============================================================================

\* Number of calls issued in the specifications SpecOh and SpecRw.
MaxOhCalls == 2

\* Callers of Getattr: p0 lives in the host's pid namespace, the pid namespace
\* of p8 cannot be identified.
GetattrPids == Pids \cup {"p0", "p8"}

\* h.Service.FindPidNsInode(pid): 0 when the namespace cannot be identified.
FindPidNsInode(pid) ==
    CASE pid = "p8" -> 0
      [] pid = "p0" -> 1
      [] pid = "p1" -> 2
      [] pid = "p2" -> 3
      [] OTHER      -> 4

\* h.Service.HostPidNsInode()
HostPidNsInode == FindPidNsInode("p0")

\* What Getattr hands back: the container's ownership, root's, or whatever the
\* common handler answers.
StatContainer == <<"uid:gid">>
StatRoot == <<"0:0">>
StatCommon == <<"commonHandler">>

\* ---------------------------------------------------------- ProcSysNetIpv4Neigh

\* A goroutine calls ProcSysNetIpv4Neigh.Read; req.Container is the container
\* of req.Pid, or nil.
NeighReadCall(t, pid, off) ==
    /\ NfEnter(t, "neigh_read", pid, <<>>, off, "n_read")
    /\ UNCHANGED <<hostFile, cache, lastW, lastR, wmax, fssVars, ohVars>>

\* if req.Offset > 0 { return 0, io.EOF }; if cntr == nil { return error };
\* return readFileInt(h, n, req)
NeighRead(t) ==
    /\ IF ncall[t].off > 0 THEN NfReturn(t, 0, "EOF", <<>>)
       ELSE IF ncall[t].cntr = "nil" THEN NfReturn(t, 0, "ContainerNotFound", <<>>)
       ELSE ncall' = [ncall EXCEPT ![t].pc = "n_rint"]
    /\ UNCHANGED <<hostFile, cache, nfCalls, lastW, lastR, wmax, fssVars, ohVars>>

\* readFileInt: the container's cached value, or on a miss the host value, which
\* is cached.
ReadFileInt(t) ==
    LET c == ncall[t].cntr
        v == IF neighData[c].ok THEN neighData[c].data ELSE ReadLine(hostNodes.neigh)
    IN
    /\ neighData' = [neighData EXCEPT ![c] = [ok |-> TRUE, data |-> v]]
    /\ ReadResult(t, v)
    /\ UNCHANGED <<hostFile, cache, nfCalls, lastW, lastR, wmax, fssVars, hostNodes, dcall>>

\* A goroutine calls ProcSysNetIpv4Neigh.Write.
NeighWriteCall(t, pid, buf) ==
    /\ NfEnter(t, "neigh_write", pid, buf, 0, "n_write")
    /\ UNCHANGED <<hostFile, cache, lastW, lastR, wmax, fssVars, ohVars>>

\* newVal := TrimSpace(req.Data); _, err := Atoi(newVal); if err != nil { return };
\* if cntr == nil { return error }; return writeInt(h, n, req, MinInt, MaxInt, false)
NeighWrite(t) ==
    /\ IF Atoi(TrimSpace(ncall[t].buf)).err THEN NfReturn(t, 0, "syntax", <<>>)
       ELSE IF ncall[t].cntr = "nil" THEN NfReturn(t, 0, "ContainerNotFound", <<>>)
       ELSE ncall' = [ncall EXCEPT ![t].pc = "n_wint",
                                   ![t].newMax = TrimSpace(ncall[t].buf),
                                   ![t].newMaxInt = Atoi(TrimSpace(ncall[t].buf)).val]
    /\ UNCHANGED <<hostFile, cache, nfCalls, lastW, lastR, wmax, fssVars, ohVars>>

\* writeInt: the value is cached, and pushed to the host when it is larger than
\* the host's.
WriteInt(t) ==
    LET h == Atoi(ReadLine(hostNodes.neigh)) IN
    /\ hostNodes' = IF ~h.err /\ ncall[t].newMaxInt > h.val
                       THEN [hostNodes EXCEPT !.neigh = HostWrite(Itoa(ncall[t].newMaxInt))]
                       ELSE hostNodes
    /\ neighData' = [neighData EXCEPT ![ncall[t].cntr] =
                                        [ok |-> TRUE, data |-> ncall[t].newMax]]
    /\ NfReturn(t, Len(ncall[t].buf), "nil", <<>>)
    /\ UNCHANGED <<hostFile, cache, nfCalls, lastW, lastR, wmax, fssVars, dcall>>

Neigh(t) ==
    \/ /\ ncall[t].pc = "n_read"  /\ NeighRead(t)
    \/ /\ ncall[t].pc = "n_rint"  /\ ReadFileInt(t)
    \/ /\ ncall[t].pc = "n_write" /\ NeighWrite(t)
    \/ /\ ncall[t].pc = "n_wint"  /\ WriteInt(t)

\* ------------------------------------ ProcMeminfoHandler, ProcCpuinfoHandler

PassthroughOps == {"meminfo_write", "cpuinfo_write"}

\* A goroutine calls ProcMeminfoHandler.Write or ProcCpuinfoHandler.Write.
PassthroughWriteCall(t, op, pid, buf) ==
    /\ NfEnter(t, op, pid, buf, 0, "p_ret")
    /\ UNCHANGED <<hostFile, cache, lastW, lastR, wmax, fssVars, ohVars>>

\* return 0, nil
PassthroughWrite(t) ==
    /\ ncall[t].pc = "p_ret"
    /\ NfReturn(t, 0, "nil", <<>>)
    /\ UNCHANGED <<hostFile, cache, nfCalls, lastW, lastR, wmax, fssVars, ohVars>>

\* -------------------------------------------------------------------- Getattr

GetattrOps == {"nf_getattr", "neigh_getattr", "meminfo_getattr", "cpuinfo_getattr"}

\* A goroutine calls Getattr of one of the four handlers.
GetattrCall(t, op, pid) ==
    /\ NfEnter(t, op, pid, <<>>, 0, "g_ret")
    /\ UNCHANGED <<hostFile, cache, lastW, lastR, wmax, fssVars, ohVars>>

\* NfConntrackMaxHandler.Getattr: return commonHandler.Getattr(n, pid)
NfGetattr(t) == NfReturn(t, 0, "nil", StatCommon)

\* ProcSysNetIpv4Neigh.Getattr: if req.Container == nil { return error };
\* return &Stat_t{Uid: req.Container.UID(), Gid: req.Container.GID()}
NeighGetattr(t) ==
    IF ncall[t].cntr = "nil"
       THEN NfReturn(t, 0, "ContainerNotFound", <<>>)
       ELSE NfReturn(t, 0, "nil", StatContainer)

\* ProcMeminfoHandler.Getattr, ProcCpuinfoHandler.Getattr: pidInode == 0 is an
\* error, the host's pid namespace gets Uid 0 and Gid 0, the rest is the
\* common handler's.
PassthroughGetattr(t) ==
    IF FindPidNsInode(ncall[t].pid) = 0
       THEN NfReturn(t, 0, "NoPidNsInode", <<>>)
       ELSE IF FindPidNsInode(ncall[t].pid) = HostPidNsInode
               THEN NfReturn(t, 0, "nil", StatRoot)
               ELSE NfReturn(t, 0, "nil", StatCommon)

Getattr(t) ==
    /\ ncall[t].pc = "g_ret"
    /\ CASE ncall[t].op = "nf_getattr"    -> NfGetattr(t)
         [] ncall[t].op = "neigh_getattr" -> NeighGetattr(t)
         [] OTHER                         -> PassthroughGetattr(t)
    /\ UNCHANGED <<hostFile, cache, nfCalls, lastW, lastR, wmax, fssVars, ohVars>>

\* ------------------------------------ ProcSysNetIpv4Neigh: Lookup, ReadDirAll

\* Paths are relative to h.Path (/proc/sys/net/ipv4/neigh), as filepath.Rel
\* yields them, and are sequences of components: <<>> is ".".

\* h.EmuNodesMap
EmuNodesMap ==
    [k \in { <<"default">>, <<"default", "gc_thresh1">>,
             <<"default", "gc_thresh2">>, <<"default", "gc_thresh3">> } |->
        IF k = <<"default">>
           THEN [Kind |-> "EmuNodeDir", Mode |-> "0555"]
           ELSE [Kind |-> "EmuNodeFile", Mode |-> "0644"]]

\* The nodes Lookup and ReadDirAll are called on.
DirPaths ==
    { <<>>, <<"default">>, <<"default", "gc_thresh1">>, <<"default", "gc_thresh2">>,
      <<"default", "gc_thresh3">>, <<"default", "gc_thresh9">>,
      <<"default", "gc_stale_time">>, <<"lo">>, <<"lo", "gc_thresh1">> }

\* filepath.Dir
FilepathDir(p) == IF Len(p) <= 1 THEN <<>> ELSE SubSeq(p, 1, Len(p) - 1)

\* filepath.Base
FilepathBase(p) == IF p = <<>> THEN "." ELSE p[Len(p)]

\* strings.HasPrefix(relPath, "default/gc_thresh"), over the components in use.
HasGcThreshPrefix(p) ==
    /\ Len(p) >= 2
    /\ p[1] = "default"
    /\ p[2] \in {"gc_thresh1", "gc_thresh2", "gc_thresh3", "gc_thresh9"}

\* var lookupEntry string: the empty string.
NoEntry == <<"">>

\* os.FileMode: the ModeDir bit and the permission bits.
ModeDir == [dir |-> TRUE, perm |-> "0000"]

NoInfo == [Fname |-> "", Fmode |-> [dir |-> FALSE, perm |-> "0000"], FisDir |-> FALSE]

\* Lookup: lookupEntry is relPath when relPath has no directory part or starts
\* with default/gc_thresh.
LookupEntry(relPath) ==
    IF FilepathDir(relPath) = <<>> \/ HasGcThreshPrefix(relPath)
       THEN relPath ELSE NoEntry

\* Lookup: the artificial fileInfo of the virtual component lookupEntry.
LookupInfo(lookupEntry) ==
    LET v == EmuNodesMap[lookupEntry] IN
    [Fname  |-> lookupEntry,
     Fmode  |-> IF v.Kind = "EmuNodeDir" THEN [dir |-> TRUE, perm |-> v.Mode]
                ELSE IF v.Kind = "EmuNodeFile" THEN [dir |-> FALSE, perm |-> v.Mode]
                ELSE [dir |-> FALSE, perm |-> "0000"],
     FisDir |-> v.Kind = "EmuNodeDir"]

\* ReadDirAll, one iteration of the loop over h.EmuNodesMap: the entries that
\* key k appends to fileEntries when relpath is listed.
DirEntryOf(relpath, k) ==
    IF relpath = FilepathDir(k)
       THEN { [Fname |-> FilepathBase(k), Fmode |-> ModeDir, FisDir |-> TRUE] }
    ELSE IF relpath # <<>> /\ relpath = FilepathDir(k)
       THEN { [Fname  |-> FilepathBase(k),
               Fmode  |-> [dir |-> FALSE, perm |-> "0000"],
               FisDir |-> FALSE] }
    ELSE {}

\* ReadDirAll: fileEntries after the loop.  The order of the entries follows
\* the iteration order of the map and is left out.
EmuEntries(relpath) == UNION { DirEntryOf(relpath, k) : k \in DOMAIN EmuNodesMap }

\* procSysCommonHandler.ReadDirAll(n, req): an error, or the entries seen in
\* the container's namespaces.
CommonReadDirAll(relpath) ==
    { [err |-> TRUE, entries |-> {}], [err |-> FALSE, entries |-> {}] }
    \cup
    ( IF relpath = <<"default">>
         THEN { [err |-> FALSE,
                 entries |-> { [Fname  |-> f,
                                Fmode  |-> [dir |-> FALSE, perm |-> "0644"],
                                FisDir |-> FALSE] :
                               f \in {"gc_thresh1", "gc_stale_time"} }] }
         ELSE {} )

\* A goroutine's Lookup or ReadDirAll call.  op, path, pid: the call; pc;
\* fileEntries: the local of ReadDirAll; err, by, info, out: what the call
\* returned (by: "emu" for an artificial fileInfo, "common" when the answer is
\* the /proc/sys/ handler's).
NoDirCall == [op |-> "none", path |-> <<>>, pid |-> "-", pc |-> "done",
              fileEntries |-> {}, err |-> "-", by |-> "-", info |-> NoInfo,
              out |-> {}]

DirInFlight(t) == dcall[t].pc # "done"

DirCall(t, op, path, pid) ==
    /\ ~DirInFlight(t)
    /\ dcall' = [dcall EXCEPT ![t] = [NoDirCall EXCEPT !.op = op, !.path = path,
                                                       !.pid = pid, !.pc = "begin"]]
    /\ UNCHANGED <<fssVars, nfVars, hostNodes, neighData>>

DirReturn(t, err, by, info, out) ==
    dcall' = [dcall EXCEPT ![t].pc = "done", ![t].err = err, ![t].by = by,
                           ![t].info = info, ![t].out = out]

\* ProcSysNetIpv4Neigh.Lookup
NeighLookup(t) ==
    /\ dcall[t].op = "lookup" /\ dcall[t].pc = "begin"
    /\ LET lookupEntry == LookupEntry(dcall[t].path) IN
       IF lookupEntry \in DOMAIN EmuNodesMap
          THEN DirReturn(t, "nil", "emu", LookupInfo(lookupEntry), {})
          ELSE \/ DirReturn(t, "NoHandler", "-", NoInfo, {})
               \/ DirReturn(t, "nil", "common", NoInfo, {})
    /\ UNCHANGED <<fssVars, nfVars, hostNodes, neighData>>

\* ProcSysNetIpv4Neigh.ReadDirAll: if req.Container == nil { return error };
\* the loop over h.EmuNodesMap.
NeighReadDirEmu(t) ==
    /\ dcall[t].op = "readdir" /\ dcall[t].pc = "begin"
    /\ IF ContainerLookupByPid(dcall[t].pid) = "nil"
          THEN DirReturn(t, "ContainerNotFound", "-", NoInfo, {})
          ELSE dcall' = [dcall EXCEPT ![t].pc = "common",
                                      ![t].fileEntries = EmuEntries(dcall[t].path)]
    /\ UNCHANGED <<fssVars, nfVars, hostNodes, neighData>>

\* ProcSysNetIpv4Neigh.ReadDirAll: FindHandler("/proc/sys/"); the entries of
\* the common handler are appended when it returned no error.
NeighReadDirCommon(t) ==
    /\ dcall[t].op = "readdir" /\ dcall[t].pc = "common"
    /\ \/ DirReturn(t, "NoHandler", "-", NoInfo, {})
       \/ \E r \in CommonReadDirAll(dcall[t].path) :
             DirReturn(t, "nil", "-", NoInfo,
                       IF r.err THEN dcall[t].fileEntries
                       ELSE dcall[t].fileEntries \cup r.entries)
    /\ UNCHANGED <<fssVars, nfVars, hostNodes, neighData>>

NeighReadDirAll(t) == NeighReadDirEmu(t) \/ NeighReadDirCommon(t)

\* ------------------------------------------------------------ specifications

\* The handler is not used.
NfQuiet ==
    /\ hostFile = <<"5", "\n">>
    /\ cache = [c \in Containers |-> NoData]
    /\ ncall = [t \in Threads |-> NoNfCall]
    /\ nfCalls = 0
    /\ lastW = [c \in Containers |-> NoData]
    /\ lastR = [c \in Containers |-> NoData]
    /\ wmax = 5

FssNext ==
    \E t \in Threads :
        \/ \E c \in CntrIds : CreateCall(t, c)
        \/ \E c \in CntrIds : DestroyCall(t, c)
        \/ CreateFuseServer(t)
        \/ DestroyFuseServer(t)

\* The host files behind the neigh, meminfo and cpuinfo nodes; no container
\* has a neigh value cached.
OhInit ==
    /\ hostNodes = [neigh |-> <<"5", "\n">>, meminfo |-> <<"m", "\n">>,
                    cpuinfo |-> <<"c", "\n">>]
    /\ neighData = [c \in Containers |-> NoData]
    /\ dcall = [t \in Threads |-> NoDirCall]

\* The service after NewFuseServerService, the handlers idle.
InitFss == FssInit /\ NfQuiet /\ OhInit

\* The fuse-server service under concurrent CreateFuseServer / DestroyFuseServer.
SpecFss == InitFss /\ [][FssNext]_vars

FssAllNext ==
    \E t \in Threads :
        \/ \E c \in CntrIds : ~Crashed /\ CreateCall(t, c)
        \/ \E c \in CntrIds : ~Crashed /\ DestroyCall(t, c)
        \/ ~Crashed /\ DestroyServiceCall(t)
        \/ ~Crashed /\ CreateFuseServer(t)
        \/ ~Crashed /\ DestroyFuseServer(t)
        \/ ~Crashed /\ DestroyFuseService(t)

\* The service with DestroyFuseService (daemon shutdown) among the calls.
SpecFssAll == InitFss /\ [][FssAllNext]_vars

NfNext ==
    \E t \in Threads :
        \/ \E pid \in Pids : \E buf \in Bufs : WriteCall(t, pid, buf)
        \/ \E pid \in Pids : \E off \in Offsets : ReadCall(t, pid, off)
        \/ Write(t)
        \/ Read(t)

\* The handler before its first call, the service as constructed.
InitNf == NfInit /\ FssInit /\ OhInit

\* The nf_conntrack_max handler under concurrent Read / Write calls.
SpecNf == InitNf /\ [][NfNext]_vars

NfQuiescent == \A t \in Threads : ~NfInFlight(t)

DirNext ==
    \E t \in Threads :
        \/ \E path \in DirPaths : \E pid \in Pids : DirCall(t, "lookup", path, pid)
        \/ \E path \in DirPaths : \E pid \in Pids : DirCall(t, "readdir", path, pid)
        \/ NeighLookup(t)
        \/ NeighReadDirAll(t)

\* The neigh handler under concurrent Lookup and ReadDirAll calls.
SpecDir == InitFss /\ [][DirNext]_vars

NfNextSeq ==
    \E t \in Threads :
        \/ \E pid \in Pids : \E buf \in Bufs : NfQuiescent /\ WriteCall(t, pid, buf)
        \/ \E pid \in Pids : \E off \in Offsets : NfQuiescent /\ ReadCall(t, pid, off)
        \/ Write(t)
        \/ Read(t)

OhNext ==
    \E t \in Threads :
        \/ \E pid \in Pids : \E off \in Offsets : nfCalls < MaxOhCalls /\ NeighReadCall(t, pid, off)
        \/ \E pid \in Pids : \E buf \in Bufs : nfCalls < MaxOhCalls /\ NeighWriteCall(t, pid, buf)
        \/ \E op \in PassthroughOps : \E pid \in Pids : \E buf \in Bufs :
              nfCalls < MaxOhCalls /\ PassthroughWriteCall(t, op, pid, buf)
        \/ \E op \in GetattrOps : \E pid \in GetattrPids : nfCalls < MaxOhCalls /\ GetattrCall(t, op, pid)
        \/ Neigh(t)
        \/ PassthroughWrite(t)
        \/ Getattr(t)

\* The neigh, meminfo and cpuinfo handlers and the Getattr of all handlers,
\* under concurrent calls.
SpecOh == InitNf /\ [][OhNext]_vars

\* The nf_conntrack_max and neigh handlers' Read and Write under concurrent calls.
RwNext ==
    \E t \in Threads :
        \/ \E pid \in Pids : \E buf \in Bufs : nfCalls < MaxOhCalls /\ WriteCall(t, pid, buf)
        \/ \E pid \in Pids : \E off \in Offsets : nfCalls < MaxOhCalls /\ ReadCall(t, pid, off)
        \/ \E pid \in Pids : \E off \in Offsets : nfCalls < MaxOhCalls /\ NeighReadCall(t, pid, off)
        \/ \E pid \in Pids : \E buf \in Bufs : nfCalls < MaxOhCalls /\ NeighWriteCall(t, pid, buf)
        \/ Write(t)
        \/ Read(t)
        \/ Neigh(t)

\* (At most MaxOhCalls calls.)
SpecRw == InitNf /\ [][RwNext]_vars

\* The handler when every Read and Write runs to completion before the next begins.
SpecNfSeq == InitNf /\ [][NfNextSeq]_vars

\* ------------------------------------------------- claims: fuse-server service

Idle == \A t \in Threads : ~InFlight(t)

Others(t) == Threads \ {t}

\* A step of goroutine t's call.
Steps(t) == InFlight(t) /\ fcall'[t].pc # fcall[t].pc

\* C4: of CreateFuseServer calls for one id that overlap in time, with no entry
\* for the id when they began and no mkdir or Init failure, exactly one
\* returns success and the others return the 'already present' error.
\* (Only the overlapping calls have ever used the service.)
C4_ExactlyOneCreateSucceeds ==
    \A t \in Threads : \A u \in Others(t) :
        ( /\ \A w \in Threads \ {t, u} : fcall[w].op = "none"
          /\ ~InFlight(t) /\ ~InFlight(u)
          /\ fcall[t].op = "create" /\ fcall[u].op = "create"
          /\ fcall[t].id = fcall[u].id
          /\ u \in fcall[t].peers /\ t \in fcall[u].peers
          /\ fcall[t].fresh /\ fcall[u].fresh
          /\ {fcall[t].ret, fcall[u].ret} \cap {"InvalidMountpoint", "InitFailure"} = {} )
        => {fcall[t].ret, fcall[u].ret} = {"ok", "AlreadyPresent"}

\* C5: in every reachable state at most one fuse server that has been
\* initialized and not yet destroyed exists for any container id.
C5_AtMostOneLiveServerPerId ==
    \A c \in CntrIds :
        Cardinality({i \in SrvIds : srv[i].id = c /\ Live(i)}) <= 1

\* C6: a CreateFuseServer call that finds an entry for its id returns the
\* 'already present' error in that very step, and the step leaves the map,
\* the mountpoint directories and every server as they were: the call never
\* reaches mkdir, Init or Run.
C6_DuplicateCreateRejected ==
    [][\A t \in Threads :
          ( /\ fcall[t].op = "create" /\ fcall[t].pc = "check"
            /\ servers[fcall[t].id] # 0
            /\ Steps(t) )
          => /\ fcall'[t].pc = "done"
             /\ fcall'[t].ret = "AlreadyPresent"
             /\ UNCHANGED <<servers, srv, nextSrv, mountpoints>>]_vars

\* C6 witness: a duplicate create has been rejected with no other call in
\* flight, and the entry it found is still there.
C6_Witness ==
    \E t \in Threads :
        /\ Idle
        /\ fcall[t].op = "create" /\ fcall[t].ret = "AlreadyPresent"
        /\ ~fcall[t].fresh /\ fcall[t].peers = {}
        /\ servers[fcall[t].id] # 0
        /\ Live(servers[fcall[t].id])
        /\ mountpoints[fcall[t].id]

\* C7: after a successful CreateFuseServer(c) and a DestroyFuseServer(c) that
\* returned, a further DestroyFuseServer(c) running on its own returns success
\* and none of its steps changes the map, a server or a mountpoint; and a
\* DestroyFuseServer that finds no entry returns success at once, changing
\* nothing.
C7_DestroyIdempotent ==
    [][\A t \in Threads :
          ( /\ fcall[t].op = "destroy" /\ Steps(t)
            /\ \A u \in Others(t) : ~InFlight(u) )
          => /\ (fcall[t].lf = "destroyed" \/ (fcall[t].pc = "lookup" /\ servers[fcall[t].id] = 0))
                  => UNCHANGED <<servers, srv, nextSrv, mountpoints>>
             /\ (fcall[t].pc = "lookup" /\ servers[fcall[t].id] = 0)
                  => (fcall'[t].pc = "done" /\ fcall'[t].ret = "ok")
             /\ fcall'[t].pc = "done" => fcall'[t].ret = "ok"]_vars

\* C8: when DestroyFuseServer found an entry and the server's Destroy step or
\* the mountpoint removal fails, the call returns with the entry removed
\* from the server map.
C8_FailedDestroyStillDeregisters ==
    [][\A t \in Threads :
          ( /\ fcall[t].op = "destroy" /\ fcall[t].pc \in {"destroy", "remove"}
            /\ fcall'[t].pc = "done" )
          => servers'[fcall[t].id] = 0]_vars

\* C9: whenever no call is in progress, the mountpoint directory of an id
\* exists iff the server map holds a live fuse server for the id.
C9_MountpointIffLiveServer ==
    Idle =>
        \A c \in CntrIds :
            mountpoints[c] <=> (servers[c] # 0 /\ Live(servers[c]))

\* C10: when CreateFuseServer returns because Init failed, no map entry has
\* been inserted, the server was not launched, and the mountpoint directory
\* the call created no longer exists.
C10_InitFailureReleasesAll ==
    [][\A t \in Threads :
          ( /\ fcall[t].op = "create" /\ fcall[t].pc = "init"
            /\ fcall'[t].pc = "done" )
          => /\ fcall'[t].ret = "InitFailure"
             /\ servers' = servers
             /\ srv'[nextSrv].state \notin {"Initialized", "Running"}
             /\ fcall[t].made => ~mountpoints'[fcall[t].id]]_vars

\* DestroyFuseService under weak fairness of the steps of the calls in flight.
FairFssAll ==
    SpecFssAll /\ \A t \in Threads :
                     WF_vars(~Crashed /\ (DestroyFuseServer(t) \/ DestroyFuseService(t)
                                             \/ CreateFuseServer(t)))

\* Every DestroyFuseService call comes to an end.
DestroyFuseServiceTerminates ==
    \A t \in Threads :
        (fcall[t].op = "destroyAll" /\ InFlight(t)) ~> (~InFlight(t) \/ Crashed)

\* C11: when DestroyFuseService returns and no other call is in flight, the
\* server map is empty and Destroy has been invoked on every fuse server that
\* a successful CreateFuseServer initialized.
C11_DestroyAllEmptiesMap ==
    [][\A t \in Threads :
          ( /\ fcall[t].op = "destroyAll" /\ fcall[t].pc = "range"
            /\ fcall'[t].pc = "done" /\ fcall'[t].ret = "ok"
            /\ \A u \in Others(t) : ~InFlight(u) )
          => /\ \A c \in CntrIds : servers'[c] = 0
             /\ \A i \in SrvIds :
                   srv'[i].state \in {"Initialized", "Running", "Destroyed"}
                      => srv'[i].dcalled]_vars

\* The lock of the service's RWMutex that the step at pc holds while it
\* accesses fss.servers: "R" (RLock), "W" (Lock), "none" (no lock), or "-" for
\* a step that does not access the map.
MapLock(pc) ==
    CASE pc = "check"  -> "R"
      [] pc = "store"  -> "W"
      [] pc = "lookup" -> "R"
      [] pc = "delete" -> "W"
      [] pc = "range"  -> "none"
      [] OTHER         -> "-"

\* The range loop of u over fss.servers is under way.
Ranging(u) == fcall[u].op = "destroyAll" /\ InFlight(u) /\ fcall[u].visited # {}

\* C20: every step that reads, iterates over or mutates the server map holds
\* the read lock (lookup, iteration) or the write lock (insert, delete), and
\* no goroutine writes the map while another one's iteration is under way.
C20_MapAccessUnderLock ==
    [][\A t \in Threads :
          (Steps(t) /\ MapLock(fcall[t].pc) # "-")
          => /\ MapLock(fcall[t].pc) \in {"R", "W"}
             /\ servers' # servers => \A u \in Others(t) : ~Ranging(u)]_vars

\* C22: Destroy is invoked at most once on a fuse server: the step of a
\* DestroyFuseServer or DestroyFuseService call that invokes srv.Destroy()
\* finds a server on which Destroy has not been invoked before.
C22_DestroyAtMostOnce ==
    [][\A t \in Threads :
          (fcall[t].pc = "destroy" /\ Steps(t))
          => ~srv[fcall[t].srv].dcalled]_vars

\* ---------------------------------------------- claims: nf_conntrack_max handler

NfSteps(t) == NfInFlight(t) /\ ncall'[t].pc # ncall[t].pc

\* A Write call returns len(buf) and no error in this step.
WriteAccepted(t) ==
    ncall[t].op = "write" /\ NfSteps(t) /\ ncall'[t].pc = "done" /\ ncall'[t].err = "nil"

\* C1: under every interleaving of the steps of concurrent Write calls no
\* step lowers the host value, and once all the calls have returned the host
\* value is the largest of the initial host value and the accepted writes.
C1_HostNeverLowered ==
    [][ /\ (hostFile' # hostFile /\ ~HostInt.err)
            => (~HostInt'.err /\ HostInt'.val >= HostInt.val)
        /\ ((\A t \in Threads : ~NfInFlight(t)') /\ ~HostInt'.err)
            => HostInt'.val = wmax' ]_vars

\* C2: a Write of the integer v that is accepted and ran with no other call
\* in flight, begun with host value H, leaves the host value max(v, H) and
\* the container's cached value v.
C2_WriteYieldsMaxAndCachesV ==
    [][\A t \in Threads :
          (WriteAccepted(t) /\ ncall[t].solo /\ ~ncall[t].h0.err)
          => /\ HostInt' = [err |-> FALSE,
                            val |-> Max(ncall[t].newMaxInt, ncall[t].h0.val)]
             /\ cache'[ncall[t].cntr].ok
             /\ Atoi(cache'[ncall[t].cntr].data) =
                   [err |-> FALSE, val |-> ncall[t].newMaxInt] ]_vars

\* A Read call returns without error in this step.
ReadReturns(t) ==
    ncall[t].op = "read" /\ NfSteps(t) /\ ncall'[t].pc = "done" /\ ncall'[t].err = "nil"

\* C3: a Read at offset 0 that a container issues after its accepted Writes
\* v1..vn, with no other call of that container in between or alongside,
\* returns the decimal text of vn followed by a newline.
C3_ReadReturnsLastWrite ==
    [][\A t \in Threads :
          (ReadReturns(t) /\ ncall[t].alone /\ ncall[t].prev.ok)
          => ncall'[t].out = Itoa(Atoi(ncall[t].prev.data).val) \o <<"\n">> ]_vars

\* ------------------------------------- claims: callers outside any container

ReadOps == {"read", "neigh_read"}

WriteOps == {"write", "neigh_write"}

\* The step in which a Read or Write of the nf_conntrack_max or neigh handler,
\* issued by a pid of no registered container, returns.
NoContainerStep(t) ==
    /\ ncall[t].op \in ReadOps \cup WriteOps
    /\ ncall[t].cntr = "nil"
    /\ NfSteps(t)

\* C12 as stated: every Read or Write on nf_conntrack_max or a neigh node by a
\* pid of no registered container fails with 'Container not found', whatever
\* the offset and the payload, and changes no host value and no cache.
C12_AlwaysContainerNotFound ==
    [][\A t \in Threads :
          NoContainerStep(t)
          => /\ ncall'[t].pc = "done" /\ ncall'[t].n = 0
             /\ ncall'[t].err = "ContainerNotFound"
             /\ UNCHANGED <<hostFile, cache, hostNodes, neighData>>]_vars

\* C12, amended: such a call never changes a host value or a cache and returns
\* in its first step; it fails with 'Container not found' when it is a Read at
\* offset 0 or a Write of an integer payload, while a Read at a higher offset
\* returns io.EOF and a Write of a non-integer payload the parse error, both
\* of which the handlers check before they look at the container.
C12_ContainerNotFound ==
    [][\A t \in Threads :
          NoContainerStep(t)
          => /\ ncall'[t].pc = "done" /\ ncall'[t].n = 0
             /\ ncall'[t].err =
                   IF ncall[t].op \in ReadOps /\ ncall[t].off > 0 THEN "EOF"
                   ELSE IF ncall[t].op \in WriteOps /\ Atoi(TrimSpace(ncall[t].buf)).err
                           THEN "syntax"
                           ELSE "ContainerNotFound"
             /\ UNCHANGED <<hostFile, cache, hostNodes, neighData>>]_vars

\* C12 witness: a call by the pid of no container has failed with 'Container
\* not found' while a container has a value cached.
C12_Witness ==
    \E t \in Threads :
        /\ ncall[t].op \in ReadOps \cup WriteOps
        /\ ncall[t].pid = "p9" /\ ncall[t].pc = "done"
        /\ ncall[t].err = "ContainerNotFound"
        /\ \E c \in Containers : cache[c].ok \/ neighData[c].ok

\* ------------------------------------------- claims: passthrough and Getattr

\* C13: a Write on /proc/meminfo or /proc/cpuinfo returns len(buf) and no
\* error, and changes no host file and no cache.
C13_PassthroughWriteReturnsLen ==
    [][\A t \in Threads :
          (ncall[t].op \in PassthroughOps /\ NfSteps(t))
          => /\ ncall'[t].pc = "done"
             /\ ncall'[t].n = Len(ncall[t].buf) /\ ncall'[t].err = "nil"
             /\ UNCHANGED <<hostFile, cache, hostNodes, neighData>>]_vars

\* C14: Getattr of every handler returns the container's ownership to a
\* caller inside a registered container, Uid 0 and Gid 0 to a caller in the
\* host's pid namespace, and the common handler's answer to anyone else.
C14_GetattrOwnership ==
    [][\A t \in Threads :
          (ncall[t].op \in GetattrOps /\ NfSteps(t))
          => /\ ncall'[t].pc = "done" /\ ncall'[t].err = "nil"
             /\ ncall'[t].out =
                   IF ncall[t].cntr # "nil" THEN StatContainer
                   ELSE IF FindPidNsInode(ncall[t].pid) = HostPidNsInode THEN StatRoot
                   ELSE StatCommon]_vars

\* ------------------------------------ claims: the containers' cached values

\* C15: a step of a Read or Write served for one container changes the cached
\* value of no other container.
C15_OtherCachesUntouched ==
    [][\A t \in Threads :
          NfSteps(t)
          => \A c \in Containers :
                c # ncall[t].cntr => cache'[c] = cache[c]]_vars

\* C15 witness: both containers hold different cached values, and one has
\* read its own back.
C15_Witness ==
    /\ cache["c1"].ok /\ cache["c2"].ok
    /\ cache["c1"].data # cache["c2"].data
    /\ \E t \in Threads :
          /\ ncall[t].op = "read" /\ ncall[t].pid = "p1" /\ ncall[t].pc = "done"
          /\ ncall[t].err = "nil"
          /\ ncall[t].out = cache["c1"].data \o <<"\n">>
          /\ lastW["c1"].ok /\ lastW["c2"].ok

\* C16: a Read at offset 0 by a registered container returns the cached value
\* and a newline, without reading the host, when there is one; on a miss it
\* returns the host value and a newline and has cached it, and it caches
\* nothing when the host value is no integer; and a Read returns what the
\* container's previous Read returned, unless the container wrote in between.
C16_ReadCachedElseHost ==
    [][\A t \in Threads :
          (ncall[t].op = "read" /\ NfSteps(t))
          => /\ (ncall[t].pc = "r_data" /\ ncall[t].off = 0
                   /\ ncall[t].cntr # "nil" /\ cache[ncall[t].cntr].ok)
                  => /\ ncall'[t].pc = "done" /\ ncall'[t].err = "nil"
                     /\ ncall'[t].out = cache[ncall[t].cntr].data \o <<"\n">>
                     /\ ~ncall[t].hostRead
             /\ ncall[t].pc = "r_set"
                  => /\ ncall'[t].pc = "done" /\ ncall'[t].err = "nil"
                     /\ ncall[t].hostRead /\ ~Atoi(ncall[t].data).err
                     /\ ncall'[t].out = ncall[t].data \o <<"\n">>
                     /\ cache'[ncall[t].cntr] = [ok |-> TRUE, data |-> ncall[t].data]
             /\ (ncall[t].pc = "f_read" /\ ncall'[t].pc = "r_set")
                  => ncall'[t].data = ReadLine(hostFile)
             /\ ncall'[t].err # "nil" => cache' = cache
             /\ (ReadReturns(t) /\ lastR[ncall[t].cntr].ok)
                  => ncall'[t].out = lastR[ncall[t].cntr].data]_vars

\* C17: a Write that is accepted has read the host value during the call.
C17_AcceptedWriteReadHost ==
    [][\A t \in Threads : WriteAccepted(t) => ncall[t].hostRead]_vars

\* C18: a step of a Write changes a cached value only when it is the step in
\* which the Write returns len(buf) and no error, so a Write that returns an
\* error has left every cached value as it was.
C18_FailedWriteKeepsCache ==
    [][\A t \in Threads :
          (ncall[t].op = "write" /\ NfSteps(t))
          => /\ cache' # cache => WriteAccepted(t)
             /\ (ncall'[t].pc = "done" /\ ncall'[t].err # "nil") => cache' = cache]_vars

\* C18 witness: a Write of a container that has a cached value failed in
\* PushFile, and the cached value is the one of the container's last accepted
\* Write.
C18_Witness ==
    \E t \in Threads :
        /\ ncall[t].op = "write" /\ ncall[t].pid = "p1" /\ ncall[t].pc = "done"
        /\ ncall[t].err = "EOF"
        /\ cache["c1"].ok /\ cache["c1"] = lastW["c1"]

\* C19: when two Writes of one container, the only calls so far, have both
\* been accepted, the host value and the container's cached value are what
\* running the two one after the other, in one of the two orders, leaves:
\* the largest of the initial host value and the two values, and the text of
\* the Write that ran last.
C19_SameContainerWritesSerialize ==
    [][\A t \in Threads :
          ( /\ WriteAccepted(t) /\ nfCalls = 2
            /\ \A u \in Others(t) :
                  /\ ncall[u].op = "write" /\ ncall[u].pc = "done"
                  /\ ncall[u].err = "nil" /\ ncall[u].pid = ncall[t].pid )
          => /\ HostInt' = [err |-> FALSE, val |-> wmax']
             /\ cache'[ncall[t].cntr] \in
                   {[ok |-> TRUE, data |-> ncall[t].newMax], lastW[ncall[t].cntr]}]_vars

\* C21: when the Reads and Writes run one at a time, every cached value of a
\* container is an integer that is at most the integer the host file holds.
C21_CacheAtMostHost ==
    \A c \in Containers :
        cache[c].ok
        => /\ ~HostInt.err
           /\ ~Atoi(cache[c].data).err
           /\ Atoi(cache[c].data).val <= HostInt.val

\* C21 witness: a Write of c1 raised the host value to 12, and c2 then cached
\* a smaller value.
C21_Witness ==
    /\ NfQuiescent
    /\ HostInt = [err |-> FALSE, val |-> 12]
    /\ cache["c1"] = [ok |-> TRUE, data |-> <<"1", "2">>]
    /\ cache["c2"].ok /\ Atoi(cache["c2"].data).val < 12
    /\ lastW["c2"].ok

\* C23: the entries that ReadDirAll emits for the emulated nodes of the listed
\* directory are one per emulated child, and each has the kind (directory or
\* not) that Lookup reports for that node.
C23_ListedKindMatchesLookup ==
    \A t \in Threads :
        (dcall[t].op = "readdir" /\ dcall[t].pc = "done" /\ dcall[t].err = "nil")
        => \A k \in DOMAIN EmuNodesMap :
              FilepathDir(k) = dcall[t].path
              => /\ \E e \in dcall[t].fileEntries : e.Fname = FilepathBase(k)
                 /\ \A e \in dcall[t].fileEntries :
                       e.Fname = FilepathBase(k)
                       => /\ LookupEntry(k) = k
                          /\ e.FisDir = LookupInfo(k).FisDir
                          /\ e.Fmode.dir = LookupInfo(k).Fmode.dir

====
